---- MODULE Spec2Model ----
(***************************************************************************)
(* Model of the temporal_apig callback-id codec (crate temporal-json):     *)
(* the TemporalInteraction data model, Encoder::encode / Encoder::decode   *)
(* for encoder version A, and the life of one callback id: a caller builds *)
(* a command and encodes it (from the struct or from its JSON form), or a  *)
(* string arrives from outside, and the string is decoded.                 *)
(*                                                                         *)
(* A Rust String is a sequence of one-character strings; Option<T> is a    *)
(* sequence of length 0 (None) or 1 (Some); Result is a record with an ok  *)
(* flag.                                                                   *)
(***************************************************************************)
EXTENDS Integers, Sequences, FiniteSets, TLC

----------------------------------------------------------------------------
(* Bounds of the model *)

\* longest plain field value a caller puts in a command
MaxValLen == 1
\* most distinct field codes in the routing payload of a string from outside
MaxPairs == 5

\* the most pairs a reordered payload has beyond those its variant needs
MaxExtra == 0
\* the most TEMPORAL_HOST_PORT_PAIR.set calls a process makes
MaxSets == 2

----------------------------------------------------------------------------
(* Option and Result *)

None == <<>>
Some(v) == <<v>>
IsSome(o) == Len(o) = 1
Unwrap(o) == o[1]

\* The code's errors are anyhow messages; an error is kept as the place in
\* decode that raised it: "MalformedVersion" (no section delimiter),
\* "UnknownVersion" (Encoder::from_str), "MalformedPair" (a token without key
\* delimiter), "UnknownKey" (KeysToTemporalAction::from_str),
\* "MissingEventKind" (no E in the map), "UnknownEventKind"
\* (TemporalInteractionDiscriminants::from_str) and "MissingRequiredField"
\* with the code get_value did not find.  Outside decode: "Json" with the
\* member serde did not accept, "SlackEvent" (the form payload is no
\* SlackInteractionEvent) and "Engine" (execute_interaction failed).
Ok(v) == [ok |-> TRUE, val |-> v]
Err(kind, key) == [ok |-> FALSE, val |-> [kind |-> kind, key |-> key]]

----------------------------------------------------------------------------
(* Delimiters *)

SLACK_INFO_DELIMITER == ","
TEMPORAL_KEY_DELIMITER == ":"
ENCODER_SECTION_DELIMITER == "~"

Delimiters == {SLACK_INFO_DELIMITER, TEMPORAL_KEY_DELIMITER, ENCODER_SECTION_DELIMITER}

----------------------------------------------------------------------------
(* str primitives *)

\* index of the first occurrence of character d in s, 0 if there is none
RECURSIVE FindFrom(_, _, _)
FindFrom(s, d, i) ==
    IF i > Len(s) THEN 0
    ELSE IF s[i] = d THEN i
    ELSE FindFrom(s, d, i + 1)

Contains(s, d) == FindFrom(s, d, 1) # 0

\* str::split_once: None, or Some of the text before and after the first d
split_once(s, d) ==
    LET i == FindFrom(s, d, 1) IN
    IF i = 0 THEN None
    ELSE Some(<<SubSeq(s, 1, i - 1), SubSeq(s, i + 1, Len(s))>>)

\* str::split: the pieces between the occurrences of d; never empty, the
\* empty string gives one empty piece
RECURSIVE split(_, _)
split(s, d) ==
    LET i == FindFrom(s, d, 1) IN
    IF i = 0 THEN <<s>>
    ELSE <<SubSeq(s, 1, i - 1)>> \o split(SubSeq(s, i + 1, Len(s)), d)

\* [String]::join with a one-character separator
RECURSIVE join(_, _)
join(parts, d) ==
    IF Len(parts) = 0 THEN <<>>
    ELSE IF Len(parts) = 1 THEN parts[1]
    ELSE parts[1] \o <<d>> \o join(Tail(parts), d)

----------------------------------------------------------------------------
(* enum TemporalInteraction and its discriminants *)

ExecuteStr == <<"E", "x", "e", "c", "u", "t", "e">>
SignalStr == <<"S", "i", "g", "n", "a", "l">>
QueryStr == <<"Q", "u", "e", "r", "y">>

\* strum Display of TemporalInteractionDiscriminants
DiscriminantDisplay(d) ==
    CASE d = "Execute" -> ExecuteStr
      [] d = "Signal" -> SignalStr
      [] d = "Query" -> QueryStr

\* a variant lookup that takes the empty text and the lower-case name for Signal
DiscriminantFromStr_Lenient(s) ==
    IF s = ExecuteStr THEN Some("Execute")
    ELSE IF s \in {SignalStr, <<>>, <<"s", "i", "g", "n", "a", "l">>} THEN Some("Signal")
    ELSE IF s = QueryStr THEN Some("Query")
    ELSE None

\* strum EnumString of TemporalInteractionDiscriminants: exact, case-sensitive
DiscriminantFromStr(s) ==
    IF s = ExecuteStr THEN Some("Execute")
    ELSE IF s = SignalStr THEN Some("Signal")
    ELSE IF s = QueryStr THEN Some("Query")
    ELSE None

to_type_string(c) == DiscriminantDisplay(c.type)

workflow_id(c) ==
    IF c.type = "Execute" THEN c.workflow_id
    ELSE IF IsSome(c.workflow_id) THEN Unwrap(c.workflow_id) ELSE <<>>

task_queue(c) == c.task_queue

namespace(c) == c.namespace

\* SignalTemporal::run_id and QueryTemporal::run_id
run_id(action) == IF IsSome(action.run_id) THEN Unwrap(action.run_id) ELSE <<>>

\* the name of the argument-carrying field of each variant
ArgField(c) ==
    CASE c.type = "Execute" -> "args"
      [] c.type = "Signal" -> "input"
      [] c.type = "Query" -> "query_args"

\* a merge that leaves the argument field as it was
add_data_args_NoMerge(c, args) == c

\* a merge that fills the fields of a Signal it does not name with defaults
add_data_args_DefaultRest(c, args) ==
    IF c.type = "Signal"
    THEN [c EXCEPT !.input = args, !.identity = None, !.request_id = None, !.control = None]
    ELSE [c EXCEPT ![ArgField(c)] = args]

\* TemporalInteraction::add_data_args: the variant rebuilt with the argument
\* field replaced and the rest taken from self
add_data_args(c, args) == [c EXCEPT ![ArgField(c)] = args]

----------------------------------------------------------------------------
(* enum KeysToTemporalAction: the field codes in declaration order *)

\* the registry with N declared before W
KeysToTemporalAction_Reordered == <<"E", "N", "W", "T", "Y", "R", "S", "Q", "U">>

KeysToTemporalAction == <<"E", "W", "N", "T", "Y", "R", "S", "Q", "U">>

Keys == {KeysToTemporalAction[i] : i \in 1..Len(KeysToTemporalAction)}

\* a code lookup for a registry without U
KeyFromStr_WithoutU(s) ==
    IF Len(s) = 1 /\ s[1] \in Keys \ {"U"} THEN Some(s[1]) ELSE None

\* a code lookup that ignores case
KeyFromStr_AnyCase(s) ==
    IF Len(s) = 1 /\ s[1] \in Keys THEN Some(s[1])
    ELSE IF s = <<"e">> THEN Some("E")
    ELSE None

\* strum EnumString of KeysToTemporalAction: exact, case-sensitive
KeyFromStr(s) ==
    IF Len(s) = 1 /\ s[1] \in Keys THEN Some(s[1]) ELSE None

to_kv(key, value) == <<key>> \o <<TEMPORAL_KEY_DELIMITER>> \o value

----------------------------------------------------------------------------
(* enum Encoder: the registered versions *)

Encoder == <<"A">>

EncoderVersions == {Encoder[i] : i \in 1..Len(Encoder)}

EncoderDefault == "A"

\* a tag lookup that ignores case
EncoderFromStr_AnyCase(s) ==
    IF Len(s) = 1 /\ s[1] \in {"A", "a"} THEN Some("A") ELSE None

\* strum EnumString of Encoder: exact, case-sensitive
EncoderFromStr(s) ==
    IF Len(s) = 1 /\ s[1] \in EncoderVersions THEN Some(s[1]) ELSE None

----------------------------------------------------------------------------
(* Encoder::encode *)

\* QueryTemporal::query_args: the text of the first argument, or ""
query_args(action) ==
    IF IsSome(action.query_args) /\ Len(Unwrap(action.query_args)) > 0
    THEN Unwrap(action.query_args)[1]
    ELSE <<>>

\* the value the variant's match arm selects for a code; None is `continue`
ArmValue(c, key) ==
    CASE c.type = "Execute" ->
            (CASE key = "W" -> Some(workflow_id(c))
               [] key = "N" -> Some(namespace(c))
               [] key = "T" -> Some(task_queue(c))
               [] key = "Y" -> Some(c.workflow_type)
               [] OTHER -> None)
      [] c.type = "Signal" ->
            (CASE key = "W" -> Some(workflow_id(c))
               [] key = "N" -> Some(namespace(c))
               [] key = "T" -> Some(task_queue(c))
               [] key = "R" -> Some(run_id(c))
               [] key = "S" -> Some(c.signal_name)
               [] OTHER -> None)
      [] c.type = "Query" ->
            (CASE key = "W" -> Some(workflow_id(c))
               [] key = "N" -> Some(namespace(c))
               [] key = "T" -> Some(task_queue(c))
               [] key = "Q" -> Some(c.query_type)
               [] key = "U" -> Some(query_args(c))
               [] OTHER -> None)

\* every arm hands its pair to kv_pairs.push
ArmPushes_All(c) == TRUE

\* whether the arm hands its pair to kv_pairs.push: the Execute and Signal
\* arms do, the Query arm builds the pair as a statement and drops it
ArmPushes(c) == c.type \in {"Execute", "Signal"}

\* the pairs pushed by `for key in KeysToTemporalAction::iter()` from the
\* i-th code on
RECURSIVE EncodeLoop(_, _)
EncodeLoop(c, i) ==
    IF i > Len(KeysToTemporalAction) THEN <<>>
    ELSE LET key == KeysToTemporalAction[i]
             v == ArmValue(c, key)
         IN  (IF IsSome(v) /\ ArmPushes(c) THEN <<to_kv(key, Unwrap(v))>> ELSE <<>>)
                \o EncodeLoop(c, i + 1)

encode(version, c) ==
    CASE version = "A" ->
        LET kv_pairs == <<to_kv("E", to_type_string(c))>> \o EncodeLoop(c, 1)
        IN  <<version>> \o <<ENCODER_SECTION_DELIMITER>> \o join(kv_pairs, SLACK_INFO_DELIMITER)

----------------------------------------------------------------------------
(* Encoder::decode *)

\* a version split that takes a string without section delimiter as a tag
\* with an empty payload
from_encoded_str_NoDelimiterOk(encoded) ==
    LET parts == split_once(encoded, ENCODER_SECTION_DELIMITER)
        tag == IF IsSome(parts) THEN Unwrap(parts)[1] ELSE encoded
        rest == IF IsSome(parts) THEN Unwrap(parts)[2] ELSE <<>>
        version == EncoderFromStr(tag)
    IN  IF ~IsSome(version) THEN Err("UnknownVersion", "")
        ELSE Ok(<<Unwrap(version), rest>>)

from_encoded_str(encoded) ==
    LET parts == split_once(encoded, ENCODER_SECTION_DELIMITER) IN
    IF ~IsSome(parts) THEN Err("MalformedVersion", "")
    ELSE LET version == EncoderFromStr(Unwrap(parts)[1]) IN
         IF ~IsSome(version) THEN Err("UnknownVersion", "")
         ELSE Ok(<<Unwrap(version), Unwrap(parts)[2]>>)

\* a routing payload that runs to the end of the string
temporal_encoded_str_ToEnd(encoded_str_without_version) == encoded_str_without_version

\* the routing payload: the text up to the next section delimiter, if any
temporal_encoded_str(encoded_str_without_version) ==
    LET parts == split_once(encoded_str_without_version, ENCODER_SECTION_DELIMITER) IN
    IF IsSome(parts) THEN Unwrap(parts)[1] ELSE encoded_str_without_version

\* a split that ends the value at the token's second key delimiter
SplitPairs_ValueToNextDelimiter(tokens) ==
    [i \in 1..Len(tokens) |->
        LET parts == split(tokens[i], TEMPORAL_KEY_DELIMITER) IN
        IF Len(parts) < 2 THEN None ELSE Some(<<parts[1], parts[2]>>)]

\* each token split at its first key delimiter; None for a token without one
SplitPairs(tokens) ==
    [i \in 1..Len(tokens) |-> split_once(tokens[i], TEMPORAL_KEY_DELIMITER)]

\* a map that takes no pair in before it has seen the E pair
RECURSIVE InsertPairs_AfterEventKind(_, _)
InsertPairs_AfterEventKind(kv_pairs, n) ==
    IF n = 0 THEN <<>>
    ELSE LET prev == InsertPairs_AfterEventKind(kv_pairs, n - 1)
             k == Unwrap(KeyFromStr(Unwrap(kv_pairs[n])[1]))
             v == Unwrap(kv_pairs[n])[2]
         IN  IF "E" \notin DOMAIN prev /\ k # "E" THEN prev
             ELSE [x \in (DOMAIN prev) \cup {k} |-> IF x = k THEN v ELSE prev[x]]

\* a map that keeps the value of the first occurrence of a code
RECURSIVE InsertPairs_FirstWins(_, _)
InsertPairs_FirstWins(kv_pairs, n) ==
    IF n = 0 THEN <<>>
    ELSE LET prev == InsertPairs_FirstWins(kv_pairs, n - 1)
             k == Unwrap(KeyFromStr(Unwrap(kv_pairs[n])[1]))
             v == Unwrap(kv_pairs[n])[2]
         IN  [x \in (DOMAIN prev) \cup {k} |-> IF x \in DOMAIN prev THEN prev[x] ELSE v]

\* encoder_map after inserting the first n pairs: a function from the codes
\* seen to the value of their last occurrence
RECURSIVE InsertPairs(_, _)
InsertPairs(kv_pairs, n) ==
    IF n = 0 THEN <<>>
    ELSE LET prev == InsertPairs(kv_pairs, n - 1)
             k == Unwrap(KeyFromStr(Unwrap(kv_pairs[n])[1]))
             v == Unwrap(kv_pairs[n])[2]
         IN  [x \in (DOMAIN prev) \cup {k} |-> IF x = k THEN v ELSE prev[x]]

\* a lookup that gives the empty string for a code the map lacks
get_value_OrDefault(key, encoder_map) ==
    IF key \in DOMAIN encoder_map THEN Ok(encoder_map[key]) ELSE Ok(<<>>)

\* KeysToTemporalAction::get_value: the entry removed from the map, or the
\* error naming the code
get_value(key, encoder_map) ==
    IF key \in DOMAIN encoder_map THEN Ok(encoder_map[key])
    ELSE Err("MissingRequiredField", key)

\* an optional field that is absent when its pair has the empty value
OkOption_EmptyIsNone(r) == IF r.ok /\ r.val # <<>> THEN Some(r.val) ELSE None

\* an optional field that is present and empty when the code is missing
OkOption_EmptyWhenMissing(r) == IF r.ok THEN Some(r.val) ELSE Some(<<>>)

\* Result::ok().map(into)
OkOption(r) == IF r.ok THEN Some(r.val) ELSE None

\* a decode of version A that looks N and T up before the event kind and
\* stops once the event kind is resolved
DecodeA_FieldsFirst(encoded_str_without_version) ==
    LET tokens == split(temporal_encoded_str(encoded_str_without_version), SLACK_INFO_DELIMITER)
        kv_pairs == SplitPairs(tokens)
    IN
    IF \E i \in 1..Len(kv_pairs) : ~IsSome(kv_pairs[i]) THEN Err("MalformedPair", "")
    ELSE IF \E i \in 1..Len(kv_pairs) : ~IsSome(KeyFromStr(Unwrap(kv_pairs[i])[1]))
    THEN Err("UnknownKey", "")
    ELSE
    LET encoder_map == InsertPairs(kv_pairs, Len(kv_pairs))
        ns == get_value("N", encoder_map)
        tq == get_value("T", encoder_map)
    IN
    IF ~ns.ok THEN ns
    ELSE IF ~tq.ok THEN tq
    ELSE IF "E" \notin DOMAIN encoder_map THEN Err("MissingEventKind", "")
    ELSE Err("UnknownEventKind", "")

DecodeA(encoded_str_without_version) ==
    LET tokens == split(temporal_encoded_str(encoded_str_without_version), SLACK_INFO_DELIMITER)
        kv_pairs == SplitPairs(tokens)
    IN
    IF \E i \in 1..Len(kv_pairs) : ~IsSome(kv_pairs[i]) THEN Err("MalformedPair", "")
    ELSE IF \E i \in 1..Len(kv_pairs) : ~IsSome(KeyFromStr(Unwrap(kv_pairs[i])[1]))
    THEN Err("UnknownKey", "")
    ELSE
    LET encoder_map == InsertPairs(kv_pairs, Len(kv_pairs)) IN
    IF "E" \notin DOMAIN encoder_map THEN Err("MissingEventKind", "")
    ELSE
    LET temporal_event_type == DiscriminantFromStr(encoder_map["E"]) IN
    IF ~IsSome(temporal_event_type) THEN Err("UnknownEventKind", "")
    ELSE
    LET ns == get_value("N", encoder_map)
        tq == get_value("T", encoder_map)
        w == get_value("W", encoder_map)
        y == get_value("Y", encoder_map)
        r == get_value("R", encoder_map)
        sn == get_value("S", encoder_map)
        q == get_value("Q", encoder_map)
    IN
    IF ~ns.ok THEN ns
    ELSE IF ~tq.ok THEN tq
    ELSE
    CASE Unwrap(temporal_event_type) = "Execute" ->
            IF ~w.ok THEN w
            ELSE IF ~y.ok THEN y
            ELSE Ok([type |-> "Execute",
                     namespace |-> ns.val,
                     task_queue |-> tq.val,
                     workflow_id |-> w.val,
                     workflow_type |-> y.val,
                     args |-> None])
      [] Unwrap(temporal_event_type) = "Signal" ->
            IF ~sn.ok THEN sn
            ELSE Ok([type |-> "Signal",
                     namespace |-> ns.val,
                     task_queue |-> tq.val,
                     workflow_id |-> OkOption(w),
                     run_id |-> OkOption(r),
                     signal_name |-> sn.val,
                     input |-> None,
                     identity |-> None,
                     request_id |-> None,
                     control |-> None])
      [] Unwrap(temporal_event_type) = "Query" ->
            IF ~q.ok THEN q
            ELSE Ok([type |-> "Query",
                     namespace |-> ns.val,
                     task_queue |-> tq.val,
                     workflow_id |-> OkOption(w),
                     run_id |-> OkOption(r),
                     query_type |-> q.val,
                     query_args |-> None])

decode(encoded_str) ==
    LET versioned == from_encoded_str(encoded_str) IN
    IF ~versioned.ok THEN versioned
    ELSE CASE versioned.val[1] = "A" -> DecodeA(versioned.val[2])

----------------------------------------------------------------------------
(* serde: the JSON form of a command.  A JSON object is the sequence of    *)
(* its members <<name, value>> in the order written; a value is a string,  *)
(* null or an array.                                                       *)

JString(v) == [kind |-> "string", v |-> v]
JNull == [kind |-> "null", v |-> <<>>]
JArray(v) == [kind |-> "array", v |-> v]

\* Serialize for Option<String> and Option<Vec<Value>>
JOptString(o) == IF IsSome(o) THEN JString(Unwrap(o)) ELSE JNull
JOptArray(o) == IF IsSome(o) THEN JArray(Unwrap(o)) ELSE JNull

\* serde_json::to_string of a TemporalInteraction: the tag first, then the
\* variant's fields in declaration order
to_json(c) ==
    CASE c.type = "Execute" ->
            << <<"type", JString(ExecuteStr)>>,
               <<"namespace", JString(c.namespace)>>,
               <<"task_queue", JString(c.task_queue)>>,
               <<"workflow_id", JString(c.workflow_id)>>,
               <<"workflow_type", JString(c.workflow_type)>>,
               <<"args", JOptArray(c.args)>> >>
      [] c.type = "Signal" ->
            << <<"type", JString(SignalStr)>>,
               <<"namespace", JString(c.namespace)>>,
               <<"task_queue", JString(c.task_queue)>>,
               <<"workflow_id", JOptString(c.workflow_id)>>,
               <<"run_id", JOptString(c.run_id)>>,
               <<"signal_name", JString(c.signal_name)>>,
               <<"input", JOptArray(c.input)>>,
               <<"identity", JOptString(c.identity)>>,
               <<"request_id", JOptString(c.request_id)>>,
               <<"control", JOptString(c.control)>> >>
      [] c.type = "Query" ->
            << <<"type", JString(QueryStr)>>,
               <<"namespace", JString(c.namespace)>>,
               <<"task_queue", JString(c.task_queue)>>,
               <<"workflow_id", JOptString(c.workflow_id)>>,
               <<"run_id", JOptString(c.run_id)>>,
               <<"query_type", JString(c.query_type)>>,
               <<"query_args", JOptArray(c.query_args)>> >>

\* the value of the member called name, None if the object has none
JGet(obj, name) ==
    IF \E i \in 1..Len(obj) : obj[i][1] = name
    THEN Some(obj[CHOOSE i \in 1..Len(obj) :
                    obj[i][1] = name /\ \A j \in 1..Len(obj) : obj[j][1] = name => j <= i][2])
    ELSE None

\* Deserialize for a String field: present and a string
JReqString(obj, name) ==
    LET m == JGet(obj, name) IN
    IF IsSome(m) /\ Unwrap(m).kind = "string" THEN Ok(Unwrap(m).v) ELSE Err("Json", name)

\* an Option field that is read as None whatever the member holds
JOpt_AlwaysNone(obj, name, kind) == Ok(None)

\* Deserialize for an Option field: a missing member and null are None
JOpt(obj, name, kind) ==
    LET m == JGet(obj, name) IN
    IF ~IsSome(m) \/ Unwrap(m).kind = "null" THEN Ok(None)
    ELSE IF Unwrap(m).kind = kind THEN Ok(Some(Unwrap(m).v))
    ELSE Err("Json", name)

\* serde_json::from_str::<TemporalInteraction>, internally tagged by "type"
from_json(obj) ==
    LET tag == JReqString(obj, "type")
        kind == IF tag.ok THEN DiscriminantFromStr(tag.val) ELSE None
        ns == JReqString(obj, "namespace")
        tq == JReqString(obj, "task_queue")
    IN
    IF ~IsSome(kind) THEN Err("Json", "type")
    ELSE IF ~ns.ok THEN ns
    ELSE IF ~tq.ok THEN tq
    ELSE
    CASE Unwrap(kind) = "Execute" ->
            LET w == JReqString(obj, "workflow_id")
                y == JReqString(obj, "workflow_type")
                a == JOpt(obj, "args", "array")
            IN  IF ~w.ok THEN w ELSE IF ~y.ok THEN y ELSE IF ~a.ok THEN a
                ELSE Ok([type |-> "Execute", namespace |-> ns.val, task_queue |-> tq.val,
                         workflow_id |-> w.val, workflow_type |-> y.val, args |-> a.val])
      [] Unwrap(kind) = "Signal" ->
            LET w == JOpt(obj, "workflow_id", "string")
                r == JOpt(obj, "run_id", "string")
                sn == JReqString(obj, "signal_name")
                a == JOpt(obj, "input", "array")
                id == JOpt(obj, "identity", "string")
                rq == JOpt(obj, "request_id", "string")
                ct == JOpt(obj, "control", "string")
            IN  IF ~w.ok THEN w ELSE IF ~r.ok THEN r ELSE IF ~sn.ok THEN sn
                ELSE IF ~a.ok THEN a ELSE IF ~id.ok THEN id ELSE IF ~rq.ok THEN rq
                ELSE IF ~ct.ok THEN ct
                ELSE Ok([type |-> "Signal", namespace |-> ns.val, task_queue |-> tq.val,
                         workflow_id |-> w.val, run_id |-> r.val, signal_name |-> sn.val,
                         input |-> a.val, identity |-> id.val, request_id |-> rq.val,
                         control |-> ct.val])
      [] Unwrap(kind) = "Query" ->
            LET w == JOpt(obj, "workflow_id", "string")
                r == JOpt(obj, "run_id", "string")
                q == JReqString(obj, "query_type")
                a == JOpt(obj, "query_args", "array")
            IN  IF ~w.ok THEN w ELSE IF ~r.ok THEN r ELSE IF ~q.ok THEN q
                ELSE IF ~a.ok THEN a
                ELSE Ok([type |-> "Query", namespace |-> ns.val, task_queue |-> tq.val,
                         workflow_id |-> w.val, run_id |-> r.val, query_type |-> q.val,
                         query_args |-> a.val])

encode_default_from_json_string(temporal_action_as_json_str) ==
    LET interaction == from_json(temporal_action_as_json_str) IN
    IF ~interaction.ok THEN interaction
    ELSE Ok(encode(EncoderDefault, interaction.val))

----------------------------------------------------------------------------
(* The inputs: commands a caller builds, strings that arrive from outside *)

\* n times the character ch
RECURSIVE Rep(_, _)
Rep(ch, n) == IF n = 0 THEN <<>> ELSE <<ch>> \o Rep(ch, n - 1)

\* the plain values of a field: the empty string and its own letter
\* MaxValLen times; no delimiter
PlainVals(ch) == {<<>>, Rep(ch, MaxValLen)}

OptOf(V) == {None} \cup {Some(v) : v \in V}

\* Option<Vec<serde_json::Value>>; a Value is kept as its JSON text
ArgVals == {None, Some(<< <<"1">> >>)}

\* the characters the JSON text of those values is written with
ArgTexts == {"1"}

\* the arguments a caller hands to add_data_args
DataArgs == {None, Some(<<>>), Some(<< <<"2">> >>)}

\* identity, request_id, control of a Signal
MetaVals == {None, Some(<<"i">>)}

ExecuteCommands ==
    [type : {"Execute"}, namespace : PlainVals("n"), task_queue : PlainVals("t"),
     workflow_id : PlainVals("w"), workflow_type : PlainVals("y"), args : ArgVals]

SignalCommands ==
    [type : {"Signal"}, namespace : PlainVals("n"), task_queue : PlainVals("t"),
     workflow_id : OptOf(PlainVals("w")), run_id : OptOf(PlainVals("r")),
     signal_name : PlainVals("s"), input : ArgVals,
     identity : MetaVals, request_id : MetaVals, control : MetaVals]

QueryCommands ==
    [type : {"Query"}, namespace : PlainVals("n"), task_queue : PlainVals("t"),
     workflow_id : OptOf(PlainVals("w")), run_id : OptOf(PlainVals("r")),
     query_type : PlainVals("q"), query_args : ArgVals]

\* the String and the Option<String> fields that the codec carries
RequiredFields(c) ==
    CASE c.type = "Execute" -> {"namespace", "task_queue", "workflow_id", "workflow_type"}
      [] c.type = "Signal" -> {"namespace", "task_queue", "signal_name"}
      [] c.type = "Query" -> {"namespace", "task_queue", "query_type"}

OptionalFields(c) ==
    CASE c.type = "Execute" -> {}
      [] c.type = "Signal" -> {"workflow_id", "run_id"}
      [] c.type = "Query" -> {"workflow_id", "run_id"}

\* the argument field and, for a Signal, identity, request_id and control are absent
IsBare(c) ==
    /\ c[ArgField(c)] = None
    /\ c.type = "Signal" => c.identity = None /\ c.request_id = None /\ c.control = None

\* field values that carry one delimiter character
DelimVals == {<<"a", d, "a">> : d \in Delimiters}

\* c with the delimiter-carrying value d in field f
WithDelim(c, f, d) ==
    IF f \in OptionalFields(c) THEN [c EXCEPT ![f] = Some(d)] ELSE [c EXCEPT ![f] = d]

\* the text carried for a field code in a string from outside
BogusStr == <<"B", "o", "g", "u", "s">>
EventTexts == {ExecuteStr, SignalStr, QueryStr, BogusStr}

RecvValue(key) ==
    CASE key = "W" -> <<"w">>
      [] key = "N" -> <<"n">>
      [] key = "T" -> <<"t">>
      [] key = "Y" -> <<"y">>
      [] key = "R" -> <<"r">>
      [] key = "S" -> <<"s">>
      [] key = "Q" -> <<"q">>
      [] key = "U" -> <<"u">>

\* the pairs for the codes of K in registry order, E carrying the text e
RECURSIVE RecvPairs(_, _, _)
RecvPairs(K, e, i) ==
    IF i > Len(KeysToTemporalAction) THEN <<>>
    ELSE LET key == KeysToTemporalAction[i] IN
         (IF key \notin K THEN <<>>
          ELSE IF key = "E" THEN <<to_kv(key, e)>>
          ELSE <<to_kv(key, RecvValue(key))>>) \o RecvPairs(K, e, i + 1)

\* the sets of at most MaxPairs field codes
RecvKeySets == {K \in SUBSET Keys : Cardinality(K) <= MaxPairs}

\* tokens that are no pair of a known code: no key delimiter, a lower-case
\* code, the empty token
OddTokens == {<<"x">>, <<"e", ":", "x">>, <<>>}

\* the routing payload's tokens with odd tokens put in front and behind
WithOdd(front, tokens, back) == front \o tokens \o back

OddParts == {<<>>} \cup {<<o>> : o \in OddTokens}

\* what stands before the routing payload: a registered tag, other tags, no
\* tag, with and without the section delimiter
RecvPrefixes ==
    {<<"A", "~">>, <<"a", "~">>, <<"~">>, <<"A">>, <<>>}

\* what stands after it: nothing, or user data behind a section delimiter
RecvSuffixes == {<<>>, <<"~", "u">>}

RecvString(p, tokens, u) == p \o join(tokens, SLACK_INFO_DELIMITER) \o u

\* event texts that name no variant: the empty text, a variant name in lower
\* case, a variant name with a letter behind it
OddEventTexts ==
    {<<>>, <<"s", "i", "g", "n", "a", "l">>, SignalStr \o <<"s">>}

\* what stands between the first pair and the second: nothing, the empty
\* token of a doubled comma, a token without key delimiter next to a pair of
\* an unknown key in both orders, a pair whose key is two codes
MidParts ==
    {<<>>,
     << <<>> >>,
     << <<"x">>, <<"e", ":", "x">> >>,
     << <<"e", ":", "x">>, <<"x">> >>,
     << <<"E", "W", ":", "x">> >>}

\* user data a caller appends: none, a pair of the codec, text with every
\* delimiter in it
UserData == {<<>>, <<"S", ":", "x">>, <<"u", ",", ":", "~", "u">>}

\* the other texts a second pair of code key carries: for E the names of
\* the other variants, for a field a text of its own
DuplicateValues(key, e) ==
    IF key = "E" THEN {ExecuteStr, SignalStr, QueryStr} \ {e} ELSE {<<"x">>}

\* the codes of the pairs decode reads for the variant named e without
\* defaulting them, E included
NeededCodes(e) ==
    CASE e = ExecuteStr -> {"E", "N", "T", "W", "Y"}
      [] e = SignalStr -> {"E", "N", "T", "S"}
      [] e = QueryStr -> {"E", "N", "T", "Q"}

\* the sets of codes of a reordered payload for the variant named e
PermutedKeySets(e) ==
    {NeededCodes(e) \cup X : X \in {Y \in SUBSET (Keys \ NeededCodes(e)) :
                                        Cardinality(Y) <= MaxExtra}}

\* tokens in the order perm gives
Permuted(tokens, perm) == [i \in 1..Len(tokens) |-> tokens[perm[i]]]

\* the routing payload's tokens with mid put behind the first of them
WithMid(tokens, mid) ==
    IF tokens = <<>> THEN mid ELSE <<Head(tokens)>> \o mid \o Tail(tokens)

----------------------------------------------------------------------------
(* The anatomy of a callback id, as a reader of the wire format sees it *)

\* the text before the first section delimiter (the whole string if none)
VersionText(s) ==
    LET first == FindFrom(s, ENCODER_SECTION_DELIMITER, 1) IN
    IF first = 0 THEN s ELSE SubSeq(s, 1, first - 1)

\* the positions of the section delimiters of s, in order
SectionMarks(s) == {i \in 1..Len(s) : s[i] = ENCODER_SECTION_DELIMITER}

\* the routing payload: between the first section delimiter and the second,
\* or the end; s must have a section delimiter
PayloadText(s) ==
    LET first == FindFrom(s, ENCODER_SECTION_DELIMITER, 1)
        second == FindFrom(s, ENCODER_SECTION_DELIMITER, first + 1)
    IN  SubSeq(s, first + 1, IF second = 0 THEN Len(s) ELSE second - 1)

\* what follows the routing payload, its section delimiter included
SuffixText(s) ==
    LET first == FindFrom(s, ENCODER_SECTION_DELIMITER, 1)
        second == FindFrom(s, ENCODER_SECTION_DELIMITER, first + 1)
    IN  IF second = 0 THEN <<>> ELSE SubSeq(s, second, Len(s))

PayloadTokens(s) == split(PayloadText(s), SLACK_INFO_DELIMITER)

\* the text of a token before its first key delimiter (the whole token if none)
TokenKey(t) ==
    LET first == FindFrom(t, TEMPORAL_KEY_DELIMITER, 1) IN
    IF first = 0 THEN t ELSE SubSeq(t, 1, first - 1)

TokenValue(t) == SubSeq(t, FindFrom(t, TEMPORAL_KEY_DELIMITER, 1) + 1, Len(t))

\* the field codes that occur as keys of the routing payload
PayloadCodes(s) ==
    IF ~Contains(s, ENCODER_SECTION_DELIMITER) THEN {}
    ELSE LET tokens == PayloadTokens(s)
             keys == {TokenKey(tokens[i]) :
                        i \in {j \in 1..Len(tokens) :
                                    Contains(tokens[j], TEMPORAL_KEY_DELIMITER)}}
         IN  {k \in Keys : <<k>> \in keys}

\* every token of the routing payload is a pair whose key is a field code
AllPairsKnown(s) ==
    LET tokens == PayloadTokens(s) IN
    \A i \in 1..Len(tokens) :
        /\ Contains(tokens[i], TEMPORAL_KEY_DELIMITER)
        /\ LET key == TokenKey(tokens[i]) IN Len(key) = 1 /\ key[1] \in Keys

\* s with the pairs of code key taken out of its routing payload
WithoutCode(s, key) ==
    LET keep == SelectSeq(PayloadTokens(s), LAMBDA t : TokenKey(t) # <<key>>)
    IN  VersionText(s) \o <<ENCODER_SECTION_DELIMITER>>
            \o join(keep, SLACK_INFO_DELIMITER) \o SuffixText(s)

----------------------------------------------------------------------------
(* The life of one callback id *)

VARIABLES
    pc,              \* "idle", "built", "merged", "encoded", "received", "decoded"
    temporal_event,  \* the command the caller built, None if there is none
    via,             \* how callback_id came about: "struct", "json", "foreign"
    callback_id,     \* the string
    parsed,          \* the result of Encoder::decode, None before it ran
    removed,         \* the code whose pairs were taken out of callback_id, "" if none
    before,          \* what decode returned before callback_id was changed
    user_data,       \* the user data appended to callback_id, None if none was
    data_args,       \* the arguments handed to add_data_args
    temporal_info    \* what add_data_args returned, None before it ran

codec_vars ==
    <<pc, temporal_event, via, callback_id, parsed, removed, before, user_data,
      data_args, temporal_info>>

\* apig_server answering one request
VARIABLES
    environment,     \* config.environment, the router is built for it
    spc,             \* "idle", "responded", "panicked"
    request,         \* the request, None before it came
    response,        \* the response that was sent, None if none was
    handler,         \* the route handler whose body ran, "none" if none did
    interaction      \* the command handed to execute_interaction, None if none was

server_vars == <<environment, spc, request, response, handler, interaction>>

\* a process that links temporal-sdk-helpers and the tasks in it that call
\* execute_interaction
VARIABLES
    process,                  \* "server": main runs first; "test": main never runs
    main_pc,                  \* "start", "serving", "panicked"
    TEMPORAL_HOST_PORT_PAIR,  \* the content of the OnceCell, None while it is empty
    set_results,              \* the set calls so far: the value given and what set returned
    tasks                     \* for every task its call of execute_interaction

engine_vars == <<process, main_pc, TEMPORAL_HOST_PORT_PAIR, set_results, tasks>>

vars == <<codec_vars, server_vars, engine_vars>>

\* the server at rest, no request taken yet
ServerIdle ==
    /\ spc = "idle"
    /\ request = None
    /\ response = None
    /\ handler = "none"
    /\ interaction = None

\* the codec at rest, nothing built or received yet
CodecIdle ==
    /\ pc = "idle"
    /\ temporal_event = None
    /\ via = "none"
    /\ callback_id = <<>>
    /\ parsed = None
    /\ removed = ""
    /\ before = None
    /\ user_data = None
    /\ data_args = None
    /\ temporal_info = None

\* the tasks of the process that call execute_interaction
Tasks == {"t1", "t2"}

\* a process before main has run, no task in it has called
\* execute_interaction
EngineIdle ==
    /\ main_pc = "start"
    /\ TEMPORAL_HOST_PORT_PAIR = None
    /\ set_results = <<>>
    /\ tasks = [t \in Tasks |->
                    [tpc |-> "idle", interaction |-> None, host_port |-> None,
                     client |-> "none", rpcs |-> <<>>, result |-> None]]

Init ==
    /\ CodecIdle
    /\ environment = "local"
    /\ ServerIdle
    /\ process = "server"
    /\ EngineIdle

\* a caller builds a command: plain values in every field
BuildPlain ==
    /\ pc = "idle"
    /\ \E c \in ExecuteCommands \cup SignalCommands \cup QueryCommands :
            temporal_event' = Some(c)
    /\ pc' = "built"
    /\ UNCHANGED <<via, callback_id, parsed, removed, before, user_data, data_args, temporal_info, server_vars, engine_vars>>

\* a caller builds a command: a delimiter in one of the fields the codec
\* carries, nothing in the fields it does not carry
BuildDelim ==
    /\ pc = "idle"
    /\ \E c \in ExecuteCommands \cup SignalCommands \cup QueryCommands :
        /\ IsBare(c)
        /\ \E f \in RequiredFields(c) \cup OptionalFields(c), d \in DelimVals :
                temporal_event' = Some(WithDelim(c, f, d))
    /\ pc' = "built"
    /\ UNCHANGED <<via, callback_id, parsed, removed, before, user_data, data_args, temporal_info, server_vars, engine_vars>>

\* encoder_version.encode(temporal_event)
Encode ==
    /\ pc = "built"
    /\ \E v \in EncoderVersions : callback_id' = encode(v, Unwrap(temporal_event))
    /\ via' = "struct"
    /\ pc' = "encoded"
    /\ UNCHANGED <<temporal_event, parsed, removed, before, user_data, data_args, temporal_info, server_vars, engine_vars>>

\* Encoder::encode_default_from_json_string(serde_json::to_string(&temporal_event))
EncodeFromJson ==
    /\ pc = "built"
    /\ LET r == encode_default_from_json_string(to_json(Unwrap(temporal_event))) IN
        /\ r.ok
        /\ callback_id' = r.val
    /\ via' = "json"
    /\ pc' = "encoded"
    /\ UNCHANGED <<temporal_event, parsed, removed, before, user_data, data_args, temporal_info, server_vars, engine_vars>>

\* temporal_event.add_data_args(data_args)
AddDataArgs ==
    /\ pc = "built"
    /\ \E a \in DataArgs :
        /\ data_args' = a
        /\ temporal_info' = Some(add_data_args(Unwrap(temporal_event), a))
    /\ pc' = "merged"
    /\ UNCHANGED <<temporal_event, via, callback_id, parsed, removed, before, user_data, server_vars, engine_vars>>

\* a string arrives from outside
Receive ==
    /\ pc = "idle"
    /\ \E p \in RecvPrefixes, K \in RecvKeySets, e \in EventTexts,
          front \in OddParts, back \in OddParts, u \in RecvSuffixes :
            /\ front = <<>> \/ back = <<>>
            /\ p # <<"A", "~">> => (front = <<>> /\ back = <<>>)
            /\ "E" \notin K => e = SignalStr
            /\ callback_id' = RecvString(p, WithOdd(front, RecvPairs(K, e, 1), back), u)
    /\ via' = "foreign"
    /\ pc' = "received"
    /\ UNCHANGED <<temporal_event, parsed, removed, before, user_data, data_args, temporal_info, server_vars, engine_vars>>

\* a version-A string arrives from outside whose E pair comes first, with
\* any text as its value and any tokens behind it
ReceiveOdd ==
    /\ pc = "idle"
    /\ \E K \in RecvKeySets, e \in OddEventTexts \cup {SignalStr}, mid \in MidParts :
            /\ "E" \in K
            /\ callback_id' =
                    RecvString(<<"A", "~">>, WithMid(RecvPairs(K, e, 1), mid), <<>>)
    /\ via' = "foreign"
    /\ pc' = "received"
    /\ UNCHANGED <<temporal_event, parsed, removed, before, user_data, data_args, temporal_info, server_vars, engine_vars>>

\* a version-A string arrives from outside with E, N and T pairs and one
\* code twice: a second pair of it, with another value, first or last
ReceiveDuplicate ==
    /\ pc = "idle"
    /\ \E K \in RecvKeySets, e \in {ExecuteStr, SignalStr, QueryStr} :
        /\ {"E", "N", "T"} \subseteq K
        /\ \E key \in K, first \in BOOLEAN :
            \E other \in DuplicateValues(key, e) :
                LET tokens == RecvPairs(K, e, 1)
                    second == <<to_kv(key, other)>>
                IN  callback_id' =
                        RecvString(<<"A", "~">>,
                                   IF first THEN second \o tokens ELSE tokens \o second,
                                   <<>>)
    /\ via' = "foreign"
    /\ pc' = "received"
    /\ UNCHANGED <<temporal_event, parsed, removed, before, user_data, data_args, temporal_info, server_vars, engine_vars>>

\* a version-A string arrives from outside with the pairs a variant needs in
\* any order
ReceivePermuted ==
    /\ pc = "idle"
    /\ \E e \in {ExecuteStr, SignalStr, QueryStr} :
        \E K \in PermutedKeySets(e) :
            \E perm \in Permutations(1..Cardinality(K)) :
                callback_id' =
                    RecvString(<<"A", "~">>, Permuted(RecvPairs(K, e, 1), perm), <<>>)
    /\ via' = "foreign"
    /\ pc' = "received"
    /\ UNCHANGED <<temporal_event, parsed, removed, before, user_data, data_args, temporal_info, server_vars, engine_vars>>

\* Encoder::decode(&callback_id)
Decode ==
    /\ pc \in {"encoded", "received"}
    /\ parsed' = Some(decode(callback_id))
    /\ pc' = "decoded"
    /\ UNCHANGED <<temporal_event, via, callback_id, removed, before, user_data, data_args, temporal_info, server_vars, engine_vars>>

\* a string that decoded arrives again from outside with every pair of one
\* of its codes taken out of the routing payload
RemovePair ==
    /\ pc = "decoded"
    /\ removed = ""
    /\ user_data = None
    /\ Unwrap(parsed).ok
    /\ \E key \in PayloadCodes(callback_id) :
        /\ callback_id' = WithoutCode(callback_id, key)
        /\ removed' = key
    /\ before' = parsed
    /\ parsed' = None
    /\ temporal_event' = None
    /\ via' = "foreign"
    /\ pc' = "received"
    /\ UNCHANGED <<user_data, data_args, temporal_info, server_vars, engine_vars>>

\* a version-A string that was decoded arrives again with a section
\* delimiter and user data behind its routing payload: any user data behind
\* a string the encoder made, the text with every delimiter behind a string
\* from outside
AppendUserData ==
    /\ pc = "decoded"
    /\ removed = ""
    /\ user_data = None
    /\ VersionText(callback_id) = <<"A">>
    /\ Cardinality(SectionMarks(callback_id)) = 1
    /\ \E u \in UserData :
        /\ via = "foreign" => u = <<"u", ",", ":", "~", "u">>
        /\ callback_id' = callback_id \o <<ENCODER_SECTION_DELIMITER>> \o u
        /\ user_data' = Some(u)
    /\ before' = parsed
    /\ parsed' = None
    /\ temporal_event' = None
    /\ via' = "foreign"
    /\ pc' = "received"
    /\ UNCHANGED <<removed, data_args, temporal_info, server_vars, engine_vars>>

Next ==
    \/ BuildPlain \/ BuildDelim \/ Encode \/ EncodeFromJson \/ AddDataArgs
    \/ Receive \/ ReceiveOdd \/ ReceiveDuplicate \/ ReceivePermuted
    \/ Decode \/ RemovePair \/ AppendUserData

Spec == Init /\ [][Next]_vars

----------------------------------------------------------------------------
(* apig_server: the router and its route handlers *)

StatusCode_OK == 200
StatusCode_CREATED == 201
StatusCode_NOT_FOUND == 404
StatusCode_UNPROCESSABLE_ENTITY == 422
StatusCode_INTERNAL_SERVER_ERROR == 500

UNSUPPORTED_API_VERSION_MSG == "unsupported API version, route is invalid"

\* the environments a server is configured for
Environments == {"local", "dev", "stage", "prod"}

\* the :version segment of the request path
VersionSegments == {"v1", "V1", "v2", "not-a-version"}

\* a response: its status and its body.  A body is text (a sequence of
\* pieces), an issued callback id, the JSON form of a command, the answer of
\* the workflow engine, or the text of an AppError
Response(status, body) == [status |-> status, body |-> body]
Text(pieces) == [text |-> pieces]

\* the outcome of an extractor that answers the request itself
Rejection(resp) == [ok |-> FALSE, response |-> resp]

\* an extractor that also takes the upper-case name of the version
ApiVersion_from_request_parts_AnyCase(version) ==
    IF version \in {"v1", "V1"} THEN Ok("V1")
    ELSE Rejection(Response(StatusCode_NOT_FOUND, Text(<<UNSUPPORTED_API_VERSION_MSG>>)))

\* impl FromRequestParts for ApiVersion
ApiVersion_from_request_parts(version) ==
    IF version = "v1" THEN Ok("V1")
    ELSE Rejection(Response(StatusCode_NOT_FOUND, Text(<<UNSUPPORTED_API_VERSION_MSG>>)))

\* the Json extractor: the body deserialized into the target type, or the
\* rejection for a body that does not deserialize into it
Json(parsed_body) ==
    IF parsed_body.ok THEN parsed_body
    ELSE Rejection(Response(StatusCode_UNPROCESSABLE_ENTITY,
            Text(<<"Failed to deserialize the JSON body into the target type:">>)))

\* impl IntoResponse for AppError
AppError_into_response(err) ==
    Response(StatusCode_INTERNAL_SERVER_ERROR, [went_wrong |-> err.val])

\* the temporal routes are left out of the router in stage and prod
TemporalRoutes(env) ==
    IF env \in {"stage", "prod"} THEN {}
    ELSE {"/temporal", "/temporal/encode", "/temporal/decode"}

\* create_router: the method and the path behind /api/:version of the routes
Routes(env) ==
    {<<"GET", "/">>, <<"POST", "/slack/interaction">>}
        \cup {<<"POST", path>> : path \in TemporalRoutes(env)}

\* the paths requests come for
RequestPaths ==
    {"/", "/slack/interaction", "/temporal", "/temporal/encode", "/temporal/decode",
     "/does-not-exist"}

Request(method, version, path, body) ==
    [method |-> method, version |-> version, path |-> path, body |-> body]

\* JSON bodies that are a command
ServerCommands ==
    {c \in ExecuteCommands \cup SignalCommands \cup QueryCommands : IsBare(c)}

\* a JSON body that is no command and no decoder input
OtherJson == << <<"not the right format", JString(<<"f">>)>> >>

\* the codes of the pairs of the strings sent to the server
ServerKeySets == SUBSET {"E", "N", "T", "S"}

\* what stands before the routing payload of those strings
ServerPrefixes == {<<"A", "~">>, <<"a", "~">>, <<"A">>}

\* TemporalInteractionResponse::from / try_from
TemporalInteractionResponse(c) ==
    CASE c.type = "Execute" -> "ExecuteWorkflow"
      [] c.type = "Signal" -> "Signal"
      [] c.type = "Query" -> "Query"

\* the kinds of SlackInteractionEvent
SlackEventKinds ==
    {"BlockActions", "DialogSubmission", "MessageAction", "Shortcut",
     "ViewSubmission", "ViewClosed"}

\* get_callback_id_from_slack_interaction_event: the id the event carries;
\* None is a panic (expect on an event without one, todo!() for a Shortcut)
get_callback_id_from_slack_interaction_event(slack_event) ==
    IF slack_event.kind = "Shortcut" THEN None
    ELSE slack_event.callback_id

\* GET /api/:version
version_confidence_check ==
    /\ spc = "idle"
    /\ \E version \in VersionSegments :
        LET api_version == ApiVersion_from_request_parts(version) IN
        /\ request' = Some(Request("GET", version, "/", Text(<<>>)))
        /\ IF ~api_version.ok
           THEN /\ response' = Some(api_version.response)
                /\ handler' = "none"
           ELSE /\ response' = Some(Response(StatusCode_OK,
                        Text(<<"received request with version ", api_version.val>>)))
                /\ handler' = "version_confidence_check"
    /\ spc' = "responded"
    /\ UNCHANGED <<environment, interaction, codec_vars, engine_vars>>

\* POST /api/:version/temporal/encode
temporal_encoder ==
    /\ spc = "idle"
    /\ <<"POST", "/temporal/encode">> \in Routes(environment)
    /\ \E version \in VersionSegments,
          body \in {to_json(c) : c \in ServerCommands} \cup {OtherJson} :
        LET api_version == ApiVersion_from_request_parts(version)
            payload == Json(from_json(body))
        IN
        /\ request' = Some(Request("POST", version, "/temporal/encode", [json |-> body]))
        /\ IF ~api_version.ok
           THEN /\ response' = Some(api_version.response)
                /\ handler' = "none"
           ELSE IF ~payload.ok
           THEN /\ response' = Some(payload.response)
                /\ handler' = "none"
           ELSE /\ response' = Some(Response(StatusCode_CREATED,
                        [encoded |-> encode(EncoderDefault, payload.val)]))
                /\ handler' = "temporal_encoder"
    /\ spc' = "responded"
    /\ UNCHANGED <<environment, interaction, codec_vars, engine_vars>>

\* POST /api/:version/temporal/decode
temporal_decoder ==
    /\ spc = "idle"
    /\ <<"POST", "/temporal/decode">> \in Routes(environment)
    /\ \E version \in VersionSegments, p \in ServerPrefixes, K \in ServerKeySets,
          e \in {SignalStr, BogusStr}, well_formed \in BOOLEAN :
        LET body == IF well_formed
                    THEN << <<"encoded", JString(RecvString(p, RecvPairs(K, e, 1), <<>>))>> >>
                    ELSE OtherJson
            api_version == ApiVersion_from_request_parts(version)
            payload == Json(JReqString(body, "encoded"))
            temporal_interaction == decode(payload.val)
        IN
        /\ request' = Some(Request("POST", version, "/temporal/decode", [json |-> body]))
        /\ IF ~api_version.ok
           THEN /\ response' = Some(api_version.response)
                /\ handler' = "none"
           ELSE IF ~payload.ok
           THEN /\ response' = Some(payload.response)
                /\ handler' = "none"
           ELSE /\ handler' = "temporal_decoder"
                /\ IF ~temporal_interaction.ok
                   THEN response' = Some(AppError_into_response(temporal_interaction))
                   ELSE response' = Some(Response(StatusCode_CREATED,
                                [json |-> to_json(temporal_interaction.val)]))
    /\ spc' = "responded"
    /\ UNCHANGED <<environment, interaction, codec_vars, engine_vars>>

\* POST /api/:version/temporal
temporal_interaction_handler ==
    /\ spc = "idle"
    /\ <<"POST", "/temporal">> \in Routes(environment)
    /\ \E version \in VersionSegments,
          body \in {to_json(c) : c \in ServerCommands} \cup {OtherJson},
          engine_ok \in BOOLEAN :
        LET api_version == ApiVersion_from_request_parts(version)
            payload == Json(from_json(body))
        IN
        /\ request' = Some(Request("POST", version, "/temporal", [json |-> body]))
        /\ IF ~api_version.ok
           THEN /\ response' = Some(api_version.response)
                /\ handler' = "none"
                /\ interaction' = None
           ELSE IF ~payload.ok
           THEN /\ response' = Some(payload.response)
                /\ handler' = "none"
                /\ interaction' = None
           ELSE /\ handler' = "temporal_interaction_handler"
                /\ interaction' = Some(payload.val)
                /\ IF engine_ok
                   THEN response' = Some(Response(StatusCode_CREATED,
                                [temporal_response |-> TemporalInteractionResponse(payload.val)]))
                   ELSE response' = Some(AppError_into_response(Err("Engine", "")))
    /\ spc' = "responded"
    /\ UNCHANGED <<environment, codec_vars, engine_vars>>

\* POST /api/:version/slack/interaction: axum_apig_handler_slack_interactions_api
\* and handle_slack_interaction
slack_interaction ==
    /\ spc = "idle"
    /\ \E version \in VersionSegments, p \in ServerPrefixes, K \in ServerKeySets,
          e \in {SignalStr, BogusStr}, kind \in SlackEventKinds,
          deserializes \in BOOLEAN, has_id \in BOOLEAN, engine_ok \in BOOLEAN :
        LET interaction_event ==
                [kind |-> kind,
                 callback_id |-> IF has_id \/ kind = "MessageAction"
                                 THEN Some(RecvString(p, RecvPairs(K, e, 1), <<>>))
                                 ELSE None]
            wrapper == [payload |-> IF deserializes THEN Some(interaction_event) ELSE None]
            api_version == ApiVersion_from_request_parts(version)
            id == get_callback_id_from_slack_interaction_event(interaction_event)
            temporal_info_no_inputs == decode(Unwrap(id))
            with_inputs ==
                add_data_args(temporal_info_no_inputs.val, Some(<<interaction_event>>))
        IN
        /\ request' = Some(Request("POST", version, "/slack/interaction", [form |-> wrapper]))
        /\ IF ~api_version.ok
           THEN /\ response' = Some(api_version.response)
                /\ handler' = "none"
                /\ interaction' = None
                /\ spc' = "responded"
           ELSE /\ handler' = "axum_apig_handler_slack_interactions_api"
                /\ IF ~deserializes
                   THEN /\ response' = Some(AppError_into_response(Err("SlackEvent", "")))
                        /\ interaction' = None
                        /\ spc' = "responded"
                   ELSE IF ~IsSome(id)
                   THEN /\ response' = None
                        /\ interaction' = None
                        /\ spc' = "panicked"
                   ELSE IF ~temporal_info_no_inputs.ok
                   THEN /\ response' = Some(AppError_into_response(temporal_info_no_inputs))
                        /\ interaction' = None
                        /\ spc' = "responded"
                   ELSE /\ interaction' = Some(with_inputs)
                        /\ spc' = "responded"
                        /\ IF engine_ok
                           THEN response' = Some(Response(StatusCode_OK, Text(<<>>)))
                           ELSE response' = Some(AppError_into_response(Err("Engine", "")))
    /\ UNCHANGED <<environment, codec_vars, engine_vars>>

\* a request for a path the router has no route for
not_found ==
    /\ spc = "idle"
    /\ \E version \in VersionSegments, path \in RequestPaths :
        LET method == IF path = "/" THEN "GET" ELSE "POST" IN
        /\ <<method, path>> \notin Routes(environment)
        /\ request' = Some(Request(method, version, path, Text(<<>>)))
        /\ response' = Some(Response(StatusCode_NOT_FOUND, Text(<<>>)))
    /\ handler' = "none"
    /\ spc' = "responded"
    /\ UNCHANGED <<environment, interaction, codec_vars, engine_vars>>

InitServer ==
    /\ CodecIdle
    /\ environment \in Environments
    /\ ServerIdle
    /\ process = "server"
    /\ EngineIdle

NextServer ==
    \/ version_confidence_check
    \/ temporal_encoder
    \/ temporal_decoder
    \/ temporal_interaction_handler
    \/ slack_interaction
    \/ not_found

SpecServer == InitServer /\ [][NextServer]_vars

----------------------------------------------------------------------------
(* temporal-sdk-helpers: the host/port cell and execute_interaction *)

\* the pairs (host, port) a configuration holds; the port of the last is no
\* number
HostPortPairs ==
    {<<"localhost", <<"7", "2", "3", "3">>>>,
     <<"temporal", <<"7", "2", "3", "3">>>>,
     <<"localhost", <<"p", "o", "r", "t">>>>}

\* url::Url::parse of http://{host}:{port}: the port is empty or a number
UrlParses(pair) ==
    \A i \in 1..Len(pair[2]) :
        pair[2][i] \in {"0", "1", "2", "3", "4", "5", "6", "7", "8", "9"}

\* a cell that takes every value it is given
OnceCell_set_Overwrite(cell, value) ==
    [cell |-> Some(value), result |-> Ok(<<>>)]

\* OnceCell::set: an empty cell takes the value and set returns Ok(()); a
\* full cell keeps its value and set returns Err(value)
OnceCell_set(cell, value) ==
    IF cell = None
    THEN [cell |-> Some(value), result |-> Ok(<<>>)]
    ELSE [cell |-> cell, result |-> [ok |-> FALSE, val |-> value]]

\* the commands handed to execute_interaction: of every variant, the
\* required fields filled, workflow_id and run_id absent, empty or filled
EngineCommands ==
    {c \in ExecuteCommands \cup SignalCommands \cup QueryCommands :
        /\ IsBare(c)
        /\ \A f \in RequiredFields(c) : c[f] # <<>>}

\* a target with the default workflow_id attached to every request
WorkflowExecutionOf_Always(info) ==
    Some([workflow_id |-> IF IsSome(info.workflow_id) THEN Unwrap(info.workflow_id) ELSE <<>>,
          run_id |-> IF IsSome(info.run_id) THEN Unwrap(info.run_id) ELSE <<>>])

\* workflow_id.map(|workflow_id| WorkflowExecution { workflow_id, run_id:
\* run_id.unwrap_or_default() })
WorkflowExecutionOf(info) ==
    IF IsSome(info.workflow_id)
    THEN Some([workflow_id |-> Unwrap(info.workflow_id),
               run_id |-> IF IsSome(info.run_id) THEN Unwrap(info.run_id) ELSE <<>>])
    ELSE None

\* Option::unwrap_or
unwrap_or(o, default) == IF IsSome(o) THEN Unwrap(o) ELSE default

\* build_workflow_execution_request: the request start_temporal_workflow sends
StartWorkflowExecutionRequest(workflow_info) ==
    [namespace |-> workflow_info.namespace,
     input |-> workflow_info.args,
     workflow_id |-> workflow_info.workflow_id,
     workflow_type |-> Some(workflow_info.workflow_type),
     task_queue |-> Some(workflow_info.task_queue)]

\* the request signal_temporal sends; a request_id the command lacks is a
\* fresh uuid
SignalWorkflowExecutionRequest(signal_info) ==
    [namespace |-> signal_info.namespace,
     workflow_execution |-> WorkflowExecutionOf(signal_info),
     signal_name |-> signal_info.signal_name,
     input |-> signal_info.input,
     identity |-> unwrap_or(signal_info.identity, "TemporalAPIG"),
     request_id |-> unwrap_or(signal_info.request_id, "Uuid::new_v4"),
     control |-> unwrap_or(signal_info.control, "placeholder_control"),
     header |-> None]

\* the request query_temporal sends
QueryWorkflowRequest(query_info) ==
    [namespace |-> query_info.namespace,
     execution |-> WorkflowExecutionOf(query_info),
     query |-> Some([query_type |-> query_info.query_type,
                     query_args |-> query_info.query_args,
                     header |-> None])]

\* a dispatch that starts a workflow whatever the variant
RpcOf_AlwaysStart(c) ==
    [kind |-> "start_workflow_execution", request |-> c]

\* the one call on the workflow service execute_interaction makes for a
\* command: its kind and its request
RpcOf(c) ==
    CASE c.type = "Execute" ->
            [kind |-> "start_workflow_execution", request |-> StartWorkflowExecutionRequest(c)]
      [] c.type = "Signal" ->
            [kind |-> "signal_workflow_execution", request |-> SignalWorkflowExecutionRequest(c)]
      [] c.type = "Query" ->
            [kind |-> "query_workflow", request |-> QueryWorkflowRequest(c)]

\* main: TEMPORAL_HOST_PORT_PAIR.set((host, port)).expect("shouldn't fail")
main_set ==
    /\ process = "server"
    /\ main_pc = "start"
    /\ \E value \in HostPortPairs :
        LET r == OnceCell_set(TEMPORAL_HOST_PORT_PAIR, value) IN
        /\ TEMPORAL_HOST_PORT_PAIR' = r.cell
        /\ set_results' = Append(set_results, [value |-> value, result |-> r.result])
        /\ main_pc' = IF r.result.ok THEN "serving" ELSE "panicked"
    /\ UNCHANGED <<process, tasks, codec_vars, server_vars>>

\* a later TEMPORAL_HOST_PORT_PAIR.set in the process; the static is pub
set_again ==
    /\ main_pc = "serving"
    /\ Len(set_results) < MaxSets
    /\ \E value \in HostPortPairs :
        LET r == OnceCell_set(TEMPORAL_HOST_PORT_PAIR, value) IN
        /\ TEMPORAL_HOST_PORT_PAIR' = r.cell
        /\ set_results' = Append(set_results, [value |-> value, result |-> r.result])
    /\ UNCHANGED <<process, main_pc, tasks, codec_vars, server_vars>>

\* task t calls execute_interaction(c): the function of its variant runs
\* build_temporal_client_without_namespace, which reads the cell, parses
\* the url and connects.  In a server the tasks are request handlers, which
\* run once main serves
build_temporal_client_without_namespace(t) ==
    /\ tasks[t].tpc = "idle"
    /\ process = "test" \/ main_pc = "serving"
    /\ \E c \in EngineCommands, connects \in BOOLEAN :
        LET got == TEMPORAL_HOST_PORT_PAIR
            client == IF got = None THEN "Temporal host and port not set!"
                      ELSE IF ~UrlParses(Unwrap(got)) THEN "url::ParseError"
                      ELSE IF ~connects THEN "Failed to create Temporal Client"
                      ELSE "connected"
        IN
        /\ (got = None \/ ~UrlParses(Unwrap(got))) => connects
        /\ tasks' = [tasks EXCEPT ![t] =
                [tpc |-> IF client = "connected" THEN "connected" ELSE "done",
                 interaction |-> Some(c),
                 host_port |-> got,
                 client |-> client,
                 rpcs |-> <<>>,
                 result |-> IF client = "connected" THEN None
                            ELSE Some(Err("Engine", client))]]
    /\ UNCHANGED <<process, main_pc, TEMPORAL_HOST_PORT_PAIR, set_results, codec_vars, server_vars>>

\* task t, its client built, sends the request of its command and gets the
\* answer: the call succeeds or fails, and the answer to a query may not
\* convert to JSON
workflow_svc_call(t) ==
    /\ tasks[t].tpc = "connected"
    /\ \E outcome \in {"ok", "tonic::Status", "serde_json::Error"} :
        LET c == Unwrap(tasks[t].interaction) IN
        /\ outcome = "serde_json::Error" => c.type = "Query"
        /\ tasks' = [tasks EXCEPT ![t] =
                [@ EXCEPT !.tpc = "done",
                          !.rpcs = Append(@, RpcOf(c)),
                          !.result = IF outcome = "ok"
                                     THEN Some(Ok(TemporalInteractionResponse(c)))
                                     ELSE Some(Err("Engine", outcome))]]
    /\ UNCHANGED <<process, main_pc, TEMPORAL_HOST_PORT_PAIR, set_results, codec_vars, server_vars>>

InitEngine ==
    /\ CodecIdle
    /\ environment = "local"
    /\ ServerIdle
    /\ process \in {"server", "test"}
    /\ EngineIdle

NextEngine ==
    \/ main_set
    \/ set_again
    \/ \E t \in Tasks : build_temporal_client_without_namespace(t)
    \/ \E t \in Tasks : workflow_svc_call(t)

SpecEngine == InitEngine /\ [][NextEngine]_vars

----------------------------------------------------------------------------
(* Properties *)

\* the codes of the pairs a command's variant cannot be built without
RequiredCodes(type) ==
    CASE type = "Execute" -> {"N", "T", "W", "Y"}
      [] type = "Signal" -> {"N", "T", "S"}
      [] type = "Query" -> {"N", "T", "Q"}

\* the text of the fields the codec carries, absent ones left out
CarriedValues(c) ==
    {c[f] : f \in RequiredFields(c)}
        \cup {Unwrap(c[f]) : f \in {g \in OptionalFields(c) : IsSome(c[g])}}

DelimiterFree(c) ==
    \A v \in CarriedValues(c) : \A i \in 1..Len(v) : v[i] \notin Delimiters

AllNonEmpty(c) == \A v \in CarriedValues(c) : Len(v) > 0

RequiredNonEmpty(c) == \A f \in RequiredFields(c) : Len(c[f]) > 0

ArgAbsent(c) == c[ArgField(c)] = None

\* c with its argument field absent
Stripped(c) == [c EXCEPT ![ArgField(c)] = None]

\* a caller's command was encoded and the string decoded as it was issued
RoundTripDone == pc = "decoded" /\ IsSome(temporal_event)

Built == Unwrap(temporal_event)

Result == Unwrap(parsed)

\* C1: a command of any variant without arguments and without delimiters in
\* its values comes back from decode(encode(c)) equal in every field.
C1_RoundTrip ==
    (RoundTripDone /\ via = "struct" /\ ArgAbsent(Built) /\ DelimiterFree(Built))
        => Result = Ok(Built)

\* C2: a command of any variant with a populated argument field comes back
\* from decode(encode(c)) equal except that the argument field is absent.
C2_ArgumentStripping ==
    (RoundTripDone /\ via = "struct" /\ ~ArgAbsent(Built))
        => Result = Ok(Stripped(Built))

\* C3: decode accepts the string encode issues for every well-formed command
\* (required fields non-empty, no delimiter in a value) of any variant.
C3_IssuedIsDecodable ==
    (RoundTripDone /\ via = "struct" /\ RequiredNonEmpty(Built) /\ DelimiterFree(Built))
        => Result.ok

\* the commands C4 is about
C4_Covered(c) ==
    /\ \/ c.type = "Execute"
       \/ /\ c.type = "Signal"
          /\ IsSome(c.workflow_id) /\ IsSome(c.run_id)
          /\ c.identity = None /\ c.request_id = None /\ c.control = None
    /\ AllNonEmpty(c)
    /\ DelimiterFree(c)

\* C4: for an Execute, and for a Signal with workflow_id and run_id present
\* and identity, request_id, control absent, values non-empty and
\* delimiter-free, decoding the string encode gives and decoding the string
\* encode_default_from_json_string gives for the JSON form both return the
\* command with its argument field absent.
C4_StructAndJsonAgree ==
    (RoundTripDone /\ via \in {"struct", "json"} /\ C4_Covered(Built))
        => Result = Ok(Stripped(Built))

C4_Witness ==
    /\ RoundTripDone /\ via = "json" /\ C4_Covered(Built)
    /\ Built.type = "Execute" /\ ~ArgAbsent(Built)
    /\ Result = Ok(Stripped(Built))

Lit_A_E == <<"A", "~", "E", ":">>

\* C5: version A writes a Signal with workflow_id and run_id present as
\* A~E:Signal,W:w,N:n,T:t,R:r,S:s and an Execute as A~E:Execute,W:w,N:n,T:t,Y:y:
\* the event kind first and once, then the registry order, nothing else.
C5_WireFormat ==
    (pc = "encoded" /\ via = "struct") =>
        /\ (Built.type = "Signal" /\ IsSome(Built.workflow_id) /\ IsSome(Built.run_id)) =>
                callback_id =
                    Lit_A_E \o SignalStr
                        \o <<",", "W", ":">> \o Unwrap(Built.workflow_id)
                        \o <<",", "N", ":">> \o Built.namespace
                        \o <<",", "T", ":">> \o Built.task_queue
                        \o <<",", "R", ":">> \o Unwrap(Built.run_id)
                        \o <<",", "S", ":">> \o Built.signal_name
        /\ Built.type = "Execute" =>
                callback_id =
                    Lit_A_E \o ExecuteStr
                        \o <<",", "W", ":">> \o Built.workflow_id
                        \o <<",", "N", ":">> \o Built.namespace
                        \o <<",", "T", ":">> \o Built.task_queue
                        \o <<",", "Y", ":">> \o Built.workflow_type

C5_Witness ==
    /\ pc = "encoded" /\ via = "struct"
    /\ Built.type = "Signal" /\ IsSome(Built.workflow_id) /\ IsSome(Built.run_id)
    /\ AllNonEmpty(Built) /\ DelimiterFree(Built)
    /\ callback_id = <<"A", "~", "E", ":", "S", "i", "g", "n", "a", "l", ",",
                       "W", ":", "w", ",", "N", ":", "n", ",", "T", ":", "t", ",",
                       "R", ":", "r", ",", "S", ":", "s">>

\* C6: version A writes a Query as the pair E:Query followed by the pairs of
\* the codes relevant to a Query, so the string has the pairs W:<workflow_id>,
\* N:<namespace>, T:<task_queue> and Q:<query_type>.
C6_QueryWireFormat ==
    (pc = "encoded" /\ via = "struct" /\ Built.type = "Query" /\ DelimiterFree(Built)) =>
        LET tokens == PayloadTokens(callback_id)
            Has(t) == \E i \in 2..Len(tokens) : tokens[i] = t
        IN  /\ tokens[1] = <<"E", ":">> \o QueryStr
            /\ Has(<<"W", ":">> \o workflow_id(Built))
            /\ Has(<<"N", ":">> \o Built.namespace)
            /\ Has(<<"T", ":">> \o Built.task_queue)
            /\ Has(<<"Q", ":">> \o Built.query_type)

\* C7: a string with a section delimiter whose text before the first one is
\* not exactly a registered version tag fails with the unknown-version error,
\* whatever follows.
C7_VersionIsolation ==
    (pc = "decoded" /\ SectionMarks(callback_id) # {} /\ VersionText(callback_id) # <<"A">>)
        => Result = Err("UnknownVersion", "")

C7_Witness ==
    /\ pc = "decoded"
    /\ SectionMarks(callback_id) # {}
    /\ VersionText(callback_id) = <<"a">>
    /\ AllPairsKnown(callback_id)
    /\ {"E", "N", "T", "S"} \subseteq PayloadCodes(callback_id)
    /\ Result = Err("UnknownVersion", "")

\* C8: a string without a section delimiter, the empty string and a bare A
\* included, fails with the malformed-version error.
C8_NoSectionDelimiter ==
    (pc = "decoded" /\ SectionMarks(callback_id) = {})
        => Result = Err("MalformedVersion", "")

C8_Witness ==
    /\ pc = "decoded"
    /\ callback_id = <<"A">>
    /\ Result = Err("MalformedVersion", "")

\* C9: a decodable version-A string with the pairs of a required code taken
\* out (N and T for every variant, S for a Signal, W and Y for an Execute, Q
\* for a Query) fails with the missing-required-field error naming that code.
C9_RequiredFieldEnforced ==
    (/\ pc = "decoded" /\ IsSome(before) /\ removed # ""
     /\ removed \in RequiredCodes(Unwrap(before).val.type))
        => Result = Err("MissingRequiredField", removed)

C9_Witness ==
    /\ pc = "decoded" /\ IsSome(before)
    /\ removed = "Q"
    /\ Unwrap(before).val.type = "Query"
    /\ Result = Err("MissingRequiredField", "Q")

\* the text of the last pair of code key in the routing payload
LastValue(s, key) ==
    LET tokens == PayloadTokens(s)
        at == {i \in 1..Len(tokens) : TokenKey(tokens[i]) = <<key>>}
    IN  TokenValue(tokens[CHOOSE i \in at : \A j \in at : j <= i])

\* C10: a version-A Signal or Query string of pairs that has E, N, T and S
\* (or Q) but no W pair and no R pair decodes to a command with workflow_id
\* absent and run_id absent.
C10_OptionalDefaulting ==
    (/\ pc = "decoded"
     /\ VersionText(callback_id) = <<"A">> /\ SectionMarks(callback_id) # {}
     /\ AllPairsKnown(callback_id)
     /\ LET codes == PayloadCodes(callback_id) IN
         /\ {"E", "N", "T"} \subseteq codes
         /\ "W" \notin codes
         /\ "R" \notin codes
         /\ \/ "S" \in codes /\ LastValue(callback_id, "E") = SignalStr
            \/ "Q" \in codes /\ LastValue(callback_id, "E") = QueryStr)
        => /\ Result.ok
           /\ Result.val.workflow_id = None
           /\ Result.val.run_id = None

C10_Witness ==
    /\ pc = "decoded"
    /\ callback_id = <<"A", "~", "E", ":", "S", "i", "g", "n", "a", "l", ",",
                       "N", ":", "n", ",", "T", ":", "t", ",", "S", ":", "s">>
    /\ Result.ok
    /\ Result.val.type = "Signal"
    /\ Result.val.workflow_id = None
    /\ Result.val.run_id = None

\* the three variant names as they are written
VariantNames == {ExecuteStr, SignalStr, QueryStr}

\* C11: a version-A string of pairs with known codes whose E value is not
\* exactly Execute, Signal or Query (the empty value and other case included)
\* fails with the unknown-event-kind error; no command is returned.
C11_UnknownEventKind ==
    (/\ pc = "decoded"
     /\ VersionText(callback_id) = <<"A">> /\ SectionMarks(callback_id) # {}
     /\ AllPairsKnown(callback_id)
     /\ "E" \in PayloadCodes(callback_id)
     /\ LastValue(callback_id, "E") \notin VariantNames)
        => Result = Err("UnknownEventKind", "")

C11_Witness ==
    /\ pc = "decoded"
    /\ callback_id = <<"A", "~", "E", ":", ",", "N", ":", "n", ",", "T", ":", "t", ",",
                       "S", ":", "s">>
    /\ Result = Err("UnknownEventKind", "")

\* the code under which the codec carries a field
FieldCode(f) ==
    CASE f = "workflow_id" -> "W"
      [] f = "namespace" -> "N"
      [] f = "task_queue" -> "T"
      [] f = "workflow_type" -> "Y"
      [] f = "run_id" -> "R"
      [] f = "signal_name" -> "S"
      [] f = "query_type" -> "Q"

\* some token of the routing payload has no key delimiter
SomeTokenBare(s) ==
    LET tokens == PayloadTokens(s) IN
    \E i \in 1..Len(tokens) : ~Contains(tokens[i], TEMPORAL_KEY_DELIMITER)

\* C12: a version-A string fails with the malformed-pair error whenever a
\* token of its routing payload has no key delimiter (the empty payload, a
\* trailing and a doubled comma included); a token is split at its first key
\* delimiter only, so a decoded field is everything behind it.
C12_MalformedPair ==
    (/\ pc = "decoded"
     /\ VersionText(callback_id) = <<"A">> /\ SectionMarks(callback_id) # {})
        => /\ SomeTokenBare(callback_id) => Result = Err("MalformedPair", "")
           /\ Result.ok =>
                /\ \A f \in RequiredFields(Result.val) :
                        Result.val[f] = LastValue(callback_id, FieldCode(f))
                /\ \A f \in OptionalFields(Result.val) :
                        IsSome(Result.val[f]) =>
                            Unwrap(Result.val[f]) = LastValue(callback_id, FieldCode(f))

C12_Witness ==
    /\ pc = "decoded"
    /\ callback_id = <<"A", "~", "E", ":", "S", "i", "g", "n", "a", "l", ",", ",",
                       "N", ":", "n", ",", "T", ":", "t", ",", "S", ":", "s">>
    /\ Result = Err("MalformedPair", "")

\* some pair of the routing payload has a key that is no field code
SomeKeyUnknown(s) ==
    LET tokens == PayloadTokens(s) IN
    \E i \in 1..Len(tokens) :
        /\ Contains(tokens[i], TEMPORAL_KEY_DELIMITER)
        /\ \A k \in Keys : TokenKey(tokens[i]) # <<k>>

\* C13 as stated: a version-A string fails with the unknown-key error
\* whenever the key of any of its tokens is not exactly one of the nine
\* codes, whatever else the routing payload holds.
C13_UnknownKeyWhenever ==
    (/\ pc = "decoded"
     /\ VersionText(callback_id) = <<"A">> /\ SectionMarks(callback_id) # {}
     /\ SomeKeyUnknown(callback_id))
        => Result = Err("UnknownKey", "")

\* C13: a version-A string in which every token has a key delimiter fails
\* with the unknown-key error whenever the key of any token is not exactly
\* one of the nine codes, also when the pairs a command needs are there.
C13_UnknownKey ==
    (/\ pc = "decoded"
     /\ VersionText(callback_id) = <<"A">> /\ SectionMarks(callback_id) # {}
     /\ ~SomeTokenBare(callback_id)
     /\ SomeKeyUnknown(callback_id))
        => Result = Err("UnknownKey", "")

C13_Witness ==
    /\ pc = "decoded"
    /\ callback_id = <<"A", "~", "E", ":", "S", "i", "g", "n", "a", "l", ",",
                       "E", "W", ":", "x", ",",
                       "N", ":", "n", ",", "T", ":", "t", ",", "S", ":", "s">>
    /\ Result = Err("UnknownKey", "")

C15_UserDataIgnored ==
    (pc = "decoded" /\ IsSome(user_data)) => Result = Unwrap(before)

C15_Witness ==
    /\ pc = "decoded"
    /\ user_data = Some(<<"u", ",", ":", "~", "u">>)
    /\ callback_id = <<"A", "~", "E", ":", "S", "i", "g", "n", "a", "l", ",",
                       "N", ":", "n", ",", "T", ":", "t", ",", "S", ":", "s",
                       "~", "u", ",", ":", "~", "u">>
    /\ Result.ok
    /\ Result = Unwrap(before)

\* C16: a command with a delimiter (',', ':' or '~') in one of the values
\* the codec carries never comes back from decode(encode(c)): decode fails,
\* it does not return a command, equal to c or different from it.
C16_DelimiterViolationFails ==
    (RoundTripDone /\ via = "struct" /\ ~DelimiterFree(Built)) => ~Result.ok

\* the fields of a command other than its argument field
OtherFields(c) == (DOMAIN c) \ {"type", ArgField(c)}

\* C17: add_data_args(c, a) has the variant of c, its argument field (args,
\* input, query_args) is a, absent if a is absent, and every other field
\* (namespace, task_queue, workflow_id, run_id, workflow_type, signal_name,
\* query_type, identity, request_id, control) is that of c.
C17_AddDataArgsFrame ==
    pc = "merged" =>
        LET c == Built
            r == Unwrap(temporal_info)
        IN  /\ r.type = c.type
            /\ DOMAIN r = DOMAIN c
            /\ r[ArgField(c)] = data_args
            /\ \A f \in OtherFields(c) : r[f] = c[f]

C17_Witness ==
    /\ pc = "merged"
    /\ Built.type = "Signal"
    /\ Built.input = Some(<< <<"1">> >>)
    /\ Built.identity = Some(<<"i">>)
    /\ IsSome(Built.workflow_id)
    /\ data_args = None
    /\ Unwrap(temporal_info).input = None
    /\ Unwrap(temporal_info).identity = Some(<<"i">>)
    /\ Unwrap(temporal_info).workflow_id = Built.workflow_id

\* C20: every command a successful decode returns has a non-empty namespace
\* and a non-empty task_queue; a pair with an empty value (N: or T:) does
\* not supply the required field.
C20_NamespaceAndTaskQueueNonEmpty ==
    (pc = "decoded" /\ Result.ok)
        => Len(Result.val.namespace) > 0 /\ Len(Result.val.task_queue) > 0

\* the callback id a handler handed to Encoder::decode, None if it handed none
DecodedByHandler ==
    LET req == Unwrap(request) IN
    IF handler = "temporal_decoder" THEN Some(JReqString(req.body.json, "encoded").val)
    ELSE IF /\ handler = "axum_apig_handler_slack_interactions_api"
            /\ IsSome(req.body.form.payload)
         THEN get_callback_id_from_slack_interaction_event(Unwrap(req.body.form.payload))
         ELSE None

\* C18: when Encoder::decode fails in the /temporal/decode handler or in the
\* Slack interaction handler, the response has a client-error status (4xx),
\* not a server-error status (5xx).
C18_DecodeFailureIsClientError ==
    (/\ spc = "responded"
     /\ IsSome(DecodedByHandler)
     /\ ~decode(Unwrap(DecodedByHandler)).ok)
        => Unwrap(response).status \in 400..499

\* the answer of the version gate
VersionGateResponse ==
    Response(StatusCode_NOT_FOUND, Text(<<UNSUPPORTED_API_VERSION_MSG>>))

\* the answer of the version check to a request with version v1
VersionCheckResponse ==
    Response(StatusCode_OK, Text(<<"received request with version ", "V1">>))

C21_EventKindFirst ==
    (/\ pc = "decoded"
     /\ VersionText(callback_id) = <<"A">> /\ SectionMarks(callback_id) # {}
     /\ AllPairsKnown(callback_id))
        => LET codes == PayloadCodes(callback_id) IN
           /\ "E" \notin codes => Result = Err("MissingEventKind", "")
           /\ ("E" \in codes /\ LastValue(callback_id, "E") \notin VariantNames)
                    => Result = Err("UnknownEventKind", "")
           /\ (~Result.ok /\ Result.val.kind = "MissingRequiredField")
                    => ("E" \in codes /\ LastValue(callback_id, "E") \in VariantNames)

C21_Witness ==
    /\ pc = "decoded"
    /\ callback_id = <<"A", "~", "W", ":", "w">>
    /\ Result = Err("MissingEventKind", "")

\* some code is the key of more than one pair of the routing payload
HasDuplicate(s) ==
    LET tokens == PayloadTokens(s) IN
    Cardinality({TokenKey(tokens[i]) : i \in 1..Len(tokens)}) < Len(tokens)

\* s with only the last pair of every key left in its routing payload
KeepLast(s) ==
    LET tokens == PayloadTokens(s)
        last == {i \in 1..Len(tokens) :
                    \A j \in (i + 1)..Len(tokens) : TokenKey(tokens[j]) # TokenKey(tokens[i])}
        RECURSIVE Kept(_)
        Kept(i) == IF i > Len(tokens) THEN <<>>
                   ELSE (IF i \in last THEN <<tokens[i]>> ELSE <<>>) \o Kept(i + 1)
    IN  VersionText(s) \o <<ENCODER_SECTION_DELIMITER>>
            \o join(Kept(1), SLACK_INFO_DELIMITER) \o SuffixText(s)

\* C22: when a code occurs more than once in the routing payload of a
\* version-A string of known-code pairs, decode gives what it gives for the
\* string with only the last pair of every code (it succeeds if that is
\* valid), each decoded field is the value of the last pair of its code, and
\* the last E pair selects the variant.
C22_LastWriteWins ==
    (/\ pc = "decoded"
     /\ VersionText(callback_id) = <<"A">> /\ SectionMarks(callback_id) # {}
     /\ AllPairsKnown(callback_id)
     /\ HasDuplicate(callback_id))
        => /\ Result = decode(KeepLast(callback_id))
           /\ Result.ok =>
                /\ DiscriminantDisplay(Result.val.type) = LastValue(callback_id, "E")
                /\ \A f \in RequiredFields(Result.val) :
                        Result.val[f] = LastValue(callback_id, FieldCode(f))
                /\ \A f \in OptionalFields(Result.val) :
                        IsSome(Result.val[f]) =>
                            Unwrap(Result.val[f]) = LastValue(callback_id, FieldCode(f))

C22_Witness ==
    /\ pc = "decoded"
    /\ callback_id = <<"A", "~", "E", ":", "Q", "u", "e", "r", "y", ",",
                       "E", ":", "S", "i", "g", "n", "a", "l", ",",
                       "N", ":", "n", ",", "T", ":", "t", ",", "S", ":", "s">>
    /\ Result.ok
    /\ Result.val.type = "Signal"
    /\ Result.val.signal_name = <<"s">>

\* s with the pairs of its routing payload in registry order; the keys of s
\* are field codes, each once
InRegistryOrder(s) ==
    LET tokens == PayloadTokens(s)
        RECURSIVE Sorted(_)
        Sorted(i) ==
            IF i > Len(KeysToTemporalAction) THEN <<>>
            ELSE SelectSeq(tokens, LAMBDA t : TokenKey(t) = <<KeysToTemporalAction[i]>>)
                    \o Sorted(i + 1)
    IN  VersionText(s) \o <<ENCODER_SECTION_DELIMITER>>
            \o join(Sorted(1), SLACK_INFO_DELIMITER) \o SuffixText(s)

\* C25: a version-A string of known-code pairs with pairwise distinct keys
\* whose pairs are decodable in some order decodes to the same command in
\* every order of its pairs; the E pair need not come first.
C25_OrderIndependent ==
    (/\ pc = "decoded"
     /\ VersionText(callback_id) = <<"A">> /\ SectionMarks(callback_id) # {}
     /\ AllPairsKnown(callback_id)
     /\ ~HasDuplicate(callback_id))
        => LET ordered == decode(InRegistryOrder(callback_id)) IN
           ordered.ok => Result = ordered

C25_Witness ==
    /\ pc = "decoded"
    /\ callback_id = <<"A", "~", "S", ":", "s", ",", "T", ":", "t", ",", "N", ":", "n", ",",
                       "E", ":", "S", "i", "g", "n", "a", "l">>
    /\ Result.ok
    /\ Result.val.type = "Signal"
    /\ Result = decode(InRegistryOrder(callback_id))

\* the routing payload of s has the pair of code key with the empty value
HasEmptyPair(s, key) ==
    LET tokens == PayloadTokens(s) IN
    \E i \in 1..Len(tokens) : tokens[i] = <<key, TEMPORAL_KEY_DELIMITER>>

\* C26: for a Signal whose workflow_id (run_id) is absent encode writes the
\* pair W: (R:) with the empty value and decode gives the field back present
\* and empty, not absent; so for every delimiter-free Signal and Execute
\* encoding what decode returned gives the string again.
C26_AbsentBecomesEmpty ==
    (/\ RoundTripDone /\ via = "struct"
     /\ Built.type \in {"Execute", "Signal"}
     /\ DelimiterFree(Built))
        => /\ Result.ok
           /\ encode(EncoderDefault, Result.val) = callback_id
           /\ (Built.type = "Signal" /\ Built.workflow_id = None) =>
                /\ HasEmptyPair(callback_id, "W")
                /\ Result.val.workflow_id = Some(<<>>)
           /\ (Built.type = "Signal" /\ Built.run_id = None) =>
                /\ HasEmptyPair(callback_id, "R")
                /\ Result.val.run_id = Some(<<>>)

C26_Witness ==
    /\ RoundTripDone /\ via = "struct"
    /\ Built.type = "Signal"
    /\ Built.workflow_id = None /\ Built.run_id = None
    /\ callback_id = <<"A", "~", "E", ":", "S", "i", "g", "n", "a", "l", ",",
                       "W", ":", ",", "N", ":", "n", ",", "T", ":", "t", ",",
                       "R", ":", ",", "S", ":", "s">>
    /\ Result.ok
    /\ Result.val.workflow_id = Some(<<>>)
    /\ Result.val.run_id = Some(<<>>)
    /\ Result.val # Stripped(Built)

\* the registered codes decode does not read for a variant
UnreadCodes(type) ==
    CASE type = "Execute" -> {"R", "S", "Q", "U"}
      [] type = "Signal" -> {"Y", "Q", "U"}
      [] type = "Query" -> {"Y", "S", "U"}

SlackEventOfRequest == Unwrap(request).body.form.payload

\* C23: in the Slack interaction handler execute_interaction is called only
\* when the form payload parsed as a Slack interaction event and decode of
\* its callback id succeeded; when parsing or decode fails it is not called;
\* the command it is called with is the decoded command with its argument
\* field set to the one-element sequence holding the event.
C23_SlackOrdering ==
    (spc # "idle" /\ Unwrap(request).path = "/slack/interaction") =>
        LET event == SlackEventOfRequest
            id == IF IsSome(event)
                  THEN get_callback_id_from_slack_interaction_event(Unwrap(event))
                  ELSE None
            decoded == decode(Unwrap(id))
        IN  /\ IsSome(interaction) =>
                    /\ handler = "axum_apig_handler_slack_interactions_api"
                    /\ IsSome(event)
                    /\ IsSome(id)
                    /\ decoded.ok
                    /\ LET c == Unwrap(interaction) IN
                       /\ c.type = decoded.val.type
                       /\ c[ArgField(c)] = Some(<<Unwrap(event)>>)
                       /\ \A f \in OtherFields(c) : c[f] = decoded.val[f]
            /\ ~IsSome(event) => interaction = None
            /\ (IsSome(id) /\ ~decoded.ok) => interaction = None

C23_Witness ==
    /\ spc = "responded"
    /\ handler = "axum_apig_handler_slack_interactions_api"
    /\ IsSome(SlackEventOfRequest)
    /\ Unwrap(SlackEventOfRequest).kind = "ViewSubmission"
    /\ IsSome(interaction)
    /\ Unwrap(interaction).type = "Signal"
    /\ Unwrap(interaction).signal_name = <<"s">>
    /\ Unwrap(interaction).input = Some(<<Unwrap(SlackEventOfRequest)>>)
    /\ Unwrap(response).status = StatusCode_OK

\* C24: TEMPORAL_HOST_PORT_PAIR is write-once.  The cell is empty exactly
\* until the first set; that set succeeds and in every later state the cell
\* holds the value it gave; every further set returns its value as an error
\* and leaves the cell as it was; the request handlers of a server that read
\* the cell all got that one value.
C24_WriteOnce ==
    /\ (set_results = <<>>) <=> (TEMPORAL_HOST_PORT_PAIR = None)
    /\ set_results # <<>> =>
        /\ set_results[1].result = Ok(<<>>)
        /\ TEMPORAL_HOST_PORT_PAIR = Some(set_results[1].value)
        /\ \A i \in 2..Len(set_results) :
                set_results[i].result = [ok |-> FALSE, val |-> set_results[i].value]
    /\ process = "server" =>
        \A t \in Tasks :
            tasks[t].client # "none" =>
                /\ set_results # <<>>
                /\ tasks[t].host_port = Some(set_results[1].value)

C24_Witness ==
    /\ process = "server"
    /\ Len(set_results) = 2
    /\ set_results[2].value # set_results[1].value
    /\ ~set_results[2].result.ok
    /\ TEMPORAL_HOST_PORT_PAIR = Some(set_results[1].value)
    /\ \A t \in Tasks : tasks[t].client = "connected"
    /\ tasks["t1"].host_port = tasks["t2"].host_port
    /\ tasks["t1"].tpc = "done" /\ tasks["t2"].tpc = "connected"

\* C28: a call of execute_interaction issues at most one call on the
\* workflow service; a call issued for an Execute starts a workflow, for a
\* Signal sends a signal, for a Query runs a query; when the client could not
\* be built (the cell empty, the url not parsed, the connection failed) the
\* result is an error and no call was issued.
C28_OneRpcOfTheVariant ==
    \A t \in Tasks :
        LET k == tasks[t] IN
        /\ Len(k.rpcs) <= 1
        /\ k.rpcs # <<>> =>
            LET c == Unwrap(k.interaction) IN
            /\ k.client = "connected"
            /\ c.type = "Execute" => k.rpcs[1].kind = "start_workflow_execution"
            /\ c.type = "Signal" => k.rpcs[1].kind = "signal_workflow_execution"
            /\ c.type = "Query" => k.rpcs[1].kind = "query_workflow"
        /\ k.client \notin {"none", "connected"} =>
            /\ k.tpc = "done"
            /\ k.rpcs = <<>>
            /\ ~Unwrap(k.result).ok
        /\ (k.client # "none" /\ k.host_port = None) =>
            k.client = "Temporal host and port not set!"
        /\ (k.tpc = "done" /\ Unwrap(k.result).ok) => Len(k.rpcs) = 1

C28_Witness ==
    /\ process = "server"
    /\ tasks["t1"].tpc = "done"
    /\ Unwrap(tasks["t1"].interaction).type = "Query"
    /\ Len(tasks["t1"].rpcs) = 1
    /\ tasks["t1"].rpcs[1].kind = "query_workflow"
    /\ Unwrap(tasks["t1"].result).ok
    /\ tasks["t2"].tpc = "done"
    /\ tasks["t2"].client = "Failed to create Temporal Client"
    /\ tasks["t2"].rpcs = <<>>
    /\ ~Unwrap(tasks["t2"].result).ok

\* the execution target of a signal or query request
ExecutionTarget(rpc) ==
    IF rpc.kind = "signal_workflow_execution" THEN rpc.request.workflow_execution
    ELSE rpc.request.execution

\* C29: the request signal_temporal or query_temporal sends has an execution
\* target exactly when the command has a workflow_id; the target's
\* workflow_id is the command's and its run_id is the command's run_id, or
\* the empty string when the command has none; without workflow_id there is
\* no target, whatever run_id is.
C29_ExecutionTarget ==
    \A t \in Tasks :
        LET k == tasks[t] IN
        (k.rpcs # <<>> /\ Unwrap(k.interaction).type \in {"Signal", "Query"}) =>
            LET c == Unwrap(k.interaction)
                target == ExecutionTarget(k.rpcs[1])
            IN  /\ IsSome(c.workflow_id) =>
                    /\ IsSome(target)
                    /\ Unwrap(target).workflow_id = Unwrap(c.workflow_id)
                    /\ IsSome(c.run_id) => Unwrap(target).run_id = Unwrap(c.run_id)
                    /\ c.run_id = None => Unwrap(target).run_id = <<>>
                /\ c.workflow_id = None => target = None

C29_Witness ==
    /\ tasks["t1"].tpc = "done" /\ tasks["t2"].tpc = "done"
    /\ Unwrap(tasks["t1"].interaction).type = "Signal"
    /\ Unwrap(tasks["t1"].interaction).workflow_id = None
    /\ IsSome(Unwrap(tasks["t1"].interaction).run_id)
    /\ Unwrap(Unwrap(tasks["t1"].interaction).run_id) # <<>>
    /\ Len(tasks["t1"].rpcs) = 1
    /\ ExecutionTarget(tasks["t1"].rpcs[1]) = None
    /\ Unwrap(tasks["t2"].interaction).type = "Query"
    /\ IsSome(Unwrap(tasks["t2"].interaction).workflow_id)
    /\ Unwrap(tasks["t2"].interaction).run_id = None
    /\ Len(tasks["t2"].rpcs) = 1
    /\ Unwrap(ExecutionTarget(tasks["t2"].rpcs[1])).workflow_id
            = Unwrap(Unwrap(tasks["t2"].interaction).workflow_id)
    /\ Unwrap(ExecutionTarget(tasks["t2"].rpcs[1])).run_id = <<>>

====
